---- MODULE Spec2Model ----
(***************************************************************************)
(* Voice-chat relay server (src/main.py): the presence registry            *)
(* active_players, the per-room queues voice_message_queue, the four       *)
(* request handlers and the cleanup_old_players sweep.                     *)
(*                                                                         *)
(* Scheduling.  The handlers are "async def" without any await, so the     *)
(* event loop runs one handler at a time: the variable handler is the      *)
(* request the loop is executing.  cleanup_old_players is a plain "def"    *)
(* handed to BackgroundTasks.add_task, so it runs on a worker thread and   *)
(* its steps interleave with the steps of the handler on the loop; the     *)
(* call in get_room_players runs on the loop thread itself.  A handler is  *)
(* therefore split at each access to active_players, the only structure    *)
(* the sweep shares with it.                                               *)
(***************************************************************************)
EXTENDS Integers, Sequences, FiniteSets, TLC

(***************************************************************************)
(* Input sets and bounds                                                   *)
(***************************************************************************)
Players == {"A", "B"}
Names == {"n1", "n2"}
Rooms == {"r1", "r2"}
AudioData == {"blob"}
SequenceNumbers == {1, 2}

\* the requests clients send in the behaviours of Spec
RegisterRequests == {<<"A", "n1", "r1">>, <<"A", "n2", "r2">>, <<"B", "n1", "r1">>}
SendRequests == {<<"A", "r1", "blob", 1>>}
PollRequests == {<<"r1", "A">>, <<"r1", "B">>}
ListRequests == {"r1"}

\* the tokens str(uuid.uuid4())[:8] is drawn from
MessageIds == {"1b9d6bcd", "9c4f2e07"}

\* the values time.time() takes, in seconds after the server started
Instants == {0, 30, 31}

\* messages published in one behaviour of Spec
MaxPublished == 1
\* background tasks added and not yet started
MaxPending == 1
\* entries the dict active_players holds (live and deleted) before it is resized
MaxDictEntries == 4

\* the worker threads background tasks run on, and the event-loop thread
Workers == {"worker"}
SweepIds == Workers \cup {"loop"}

(***************************************************************************)
(* Program constants                                                       *)
(***************************************************************************)
LivenessTimeout == 30
QueueCap == 50
PollWindow == 10

VARIABLES
    active_players,       \* player_id -> [name, room_id, last_seen]
    active_keys,          \* the dict's entries in insertion order; a deleted key leaves Dummy
    voice_message_queue,  \* room_id -> sequence of messages
    clock,                \* time.time()
    handler,              \* the request the event loop is executing
    response,             \* what that request returned
    sweeps,               \* the cleanup_old_players call of each thread
    pending,              \* background tasks added and not yet started
    published,            \* history: room_id -> every message ever appended to its queue
    swept                 \* history: each player's last_seen when each running sweep began

vars == <<active_players, active_keys, voice_message_queue, clock, handler, response,
          sweeps, pending, published, swept>>

(***************************************************************************)
(* Dicts and lists                                                         *)
(***************************************************************************)
Dummy == "<dummy>"

EmptyDict == [k \in {} |-> 0]

\* d[k] = v
DictSet(d, k, v) == [x \in (DOMAIN d) \cup {k} |-> IF x = k THEN v ELSE d[x]]

\* d.pop(k, None)
DictPop(d, k) == [x \in (DOMAIN d) \ {k} |-> d[x]]

\* the entries after a key is stored: a new key goes to the end
KeysAfterSet(keys, d, k) == IF k \in DOMAIN d THEN keys ELSE Append(keys, k)

\* the entries after a key is deleted: its entry becomes a dummy
KeysAfterPop(keys, k) == [i \in DOMAIN keys |-> IF keys[i] = k THEN Dummy ELSE keys[i]]

\* len(d)
DictLen(d) == Cardinality(DOMAIN d)

\* the keys of the dict in iteration order
LiveKeys(keys) == SelectSeq(keys, LAMBDA k : k # Dummy)

\* s[-n:] for n > 0
LastSlice(s, n) == IF Len(s) <= n THEN s ELSE SubSeq(s, Len(s) - n + 1, Len(s))

\* [p for p in active_players.values() if p.get('room_id') == room_id], its length
PlayerCount(d, r) == Cardinality({p \in DOMAIN d : d[p].room_id = r})

\* a slip at line 138: the filter dropped
FilterMessagesKeepsAll(messages, p) == messages

\* [msg for msg in messages if msg['sender_id'] != player_id]
FilterMessages(messages, p) == SelectSeq(messages, LAMBDA msg : msg.sender_id # p)

\* voice_message_queue.get(room_id, [])
QueueGet(q, r) == IF r \in DOMAIN q THEN q[r] ELSE <<>>

\* the position of the first entry at or after pos that holds a key, 0 when there is none
NextEntry(keys, pos) ==
    LET live == {i \in DOMAIN keys : i >= pos /\ keys[i] # Dummy}
    IN  IF live = {} THEN 0 ELSE CHOOSE i \in live : \A j \in live : i <= j

(***************************************************************************)
(* Initial state: both module-level dicts are empty                        *)
(***************************************************************************)
IdleHandler == [op |-> "none", pc |-> "idle"]
NoResponse == [status |-> "none"]
IdleSweep == [phase |-> "idle", current_time |-> 0, players_to_remove |-> <<>>,
              it_pos |-> 0, it_used |-> 0]

Init ==
    /\ active_players = EmptyDict
    /\ active_keys = <<>>
    /\ voice_message_queue = EmptyDict
    /\ clock = 0
    /\ handler = IdleHandler
    /\ response = NoResponse
    /\ sweeps = [t \in SweepIds |-> IdleSweep]
    /\ pending = 0
    /\ published = [r \in Rooms |-> <<>>]
    /\ swept = [t \in SweepIds |-> EmptyDict]

TotalPublished == Len(published["r1"]) + Len(published["r2"])

(***************************************************************************)
(* Responses                                                               *)
(***************************************************************************)
\* raise HTTPException(status_code=400, ...)
ClientError(detail) == [status |-> "error", code |-> 400, detail |-> detail]

\* an exception the handler does not catch: the framework answers 500
ServerError(exception) == [status |-> "error", code |-> 500, detail |-> exception]

\* the framework sends the handler's return value (or its error) to the client
Respond ==
    /\ handler.pc = "done"
    /\ handler' = IdleHandler
    /\ response' = NoResponse
    /\ UNCHANGED <<active_players, active_keys, voice_message_queue, clock, sweeps,
                   pending, published, swept>>

\* time passes
Tick(d) ==
    /\ clock' = clock + d
    /\ UNCHANGED <<active_players, active_keys, voice_message_queue, handler, response,
                   sweeps, pending, published, swept>>

(***************************************************************************)
(* POST /api/register                                                      *)
(***************************************************************************)
\* a slip at lines 69-73: setdefault keeps the entry of a player already registered
RegisterKeepsEntry(p, n, r) ==
    /\ handler.pc = "idle"
    /\ active_players' = IF p \in DOMAIN active_players
                           THEN active_players
                           ELSE DictSet(active_players, p,
                                        [name |-> n, room_id |-> r, last_seen |-> clock])
    /\ active_keys' = KeysAfterSet(active_keys, active_players, p)
    /\ voice_message_queue' = IF r \notin DOMAIN voice_message_queue
                                THEN DictSet(voice_message_queue, r, <<>>)
                                ELSE voice_message_queue
    /\ handler' = [op |-> "register", pc |-> "done", player_id |-> p, player_name |-> n,
                   room_id |-> r]
    /\ response' = [status |-> "success", room |-> r]
    /\ UNCHANGED <<clock, sweeps, pending, published, swept>>

\* a slip after line 73: the new name is written into the player's queued messages
RegisterRenamesMessages(p, n, r) ==
    /\ handler.pc = "idle"
    /\ active_players' = DictSet(active_players, p,
                                 [name |-> n, room_id |-> r, last_seen |-> clock])
    /\ active_keys' = KeysAfterSet(active_keys, active_players, p)
    /\ LET renamed == [x \in DOMAIN voice_message_queue |->
                          [i \in DOMAIN voice_message_queue[x] |->
                              IF voice_message_queue[x][i].sender_id = p
                                THEN [voice_message_queue[x][i] EXCEPT !.sender_name = n]
                                ELSE voice_message_queue[x][i]]]
       IN  voice_message_queue' = IF r \notin DOMAIN renamed
                                    THEN DictSet(renamed, r, <<>>)
                                    ELSE renamed
    /\ handler' = [op |-> "register", pc |-> "done", player_id |-> p, player_name |-> n,
                   room_id |-> r]
    /\ response' = [status |-> "success", room |-> r]
    /\ UNCHANGED <<clock, sweeps, pending, published, swept>>

\* a slip at line 76: the test dropped, the room's queue is emptied on every register
RegisterResetsQueue(p, n, r) ==
    /\ handler.pc = "idle"
    /\ active_players' = DictSet(active_players, p,
                                 [name |-> n, room_id |-> r, last_seen |-> clock])
    /\ active_keys' = KeysAfterSet(active_keys, active_players, p)
    /\ voice_message_queue' = DictSet(voice_message_queue, r, <<>>)
    /\ handler' = [op |-> "register", pc |-> "done", player_id |-> p, player_name |-> n,
                   room_id |-> r]
    /\ response' = [status |-> "success", room |-> r]
    /\ UNCHANGED <<clock, sweeps, pending, published, swept>>

\* lines 67-80
Register(p, n, r) ==
    /\ handler.pc = "idle"
    /\ active_players' = DictSet(active_players, p,
                                 [name |-> n, room_id |-> r, last_seen |-> clock])
    /\ active_keys' = KeysAfterSet(active_keys, active_players, p)
    /\ voice_message_queue' = IF r \notin DOMAIN voice_message_queue
                                THEN DictSet(voice_message_queue, r, <<>>)
                                ELSE voice_message_queue
    /\ handler' = [op |-> "register", pc |-> "done", player_id |-> p, player_name |-> n,
                   room_id |-> r]
    /\ response' = [status |-> "success", room |-> r]
    /\ UNCHANGED <<clock, sweeps, pending, published, swept>>

(***************************************************************************)
(* POST /api/send_audio                                                    *)
(***************************************************************************)
\* a slip at lines 88-89: the check left out
SendAudioCheckSkipped(s, r, a, q) ==
    /\ handler.pc = "idle"
    /\ handler' = [op |-> "send_audio", sender_id |-> s, room_id |-> r,
                   audio_data |-> a, sequence |-> q, pc |-> "touch"]
    /\ response' = NoResponse
    /\ UNCHANGED <<active_players, active_keys, voice_message_queue, clock, sweeps,
                   pending, published, swept>>

\* line 88: if message.sender_id not in active_players
SendAudioCheck(s, r, a, q) ==
    /\ handler.pc = "idle"
    /\ LET request == [op |-> "send_audio", sender_id |-> s, room_id |-> r,
                       audio_data |-> a, sequence |-> q, pc |-> "touch"]
       IN  IF s \notin DOMAIN active_players
             THEN /\ handler' = [request EXCEPT !.pc = "done"]
                  /\ response' = ClientError("UnregisteredSender")
             ELSE /\ handler' = request
                  /\ response' = NoResponse
    /\ UNCHANGED <<active_players, active_keys, voice_message_queue, clock, sweeps,
                   pending, published, swept>>

\* a slip at line 92: the sender is also moved to the room of the message
SendAudioTouchJoinsRoom ==
    /\ handler.op = "send_audio"
    /\ handler.pc = "touch"
    /\ IF handler.sender_id \in DOMAIN active_players
         THEN /\ active_players' = [active_players EXCEPT
                                      ![handler.sender_id].last_seen = clock,
                                      ![handler.sender_id].room_id = handler.room_id]
              /\ handler' = [handler EXCEPT !.pc = "build"]
              /\ UNCHANGED response
         ELSE /\ handler' = [handler EXCEPT !.pc = "done"]
              /\ response' = ServerError("KeyError")
              /\ UNCHANGED active_players
    /\ UNCHANGED <<active_keys, voice_message_queue, clock, sweeps, pending, published, swept>>

\* line 92: active_players[message.sender_id]['last_seen'] = time.time()
SendAudioTouch ==
    /\ handler.op = "send_audio"
    /\ handler.pc = "touch"
    /\ IF handler.sender_id \in DOMAIN active_players
         THEN /\ active_players' = [active_players EXCEPT
                                      ![handler.sender_id].last_seen = clock]
              /\ handler' = [handler EXCEPT !.pc = "build"]
              /\ UNCHANGED response
         ELSE /\ handler' = [handler EXCEPT !.pc = "done"]
              /\ response' = ServerError("KeyError")
              /\ UNCHANGED active_players
    /\ UNCHANGED <<active_keys, voice_message_queue, clock, sweeps, pending, published, swept>>

\* lines 97-105: the message stored for the request, id being the uuid token drawn
MessageData(id) ==
    [id |-> id,
     sender_id |-> handler.sender_id,
     sender_name |-> active_players[handler.sender_id].name,
     audio_data |-> handler.audio_data,
     sequence |-> handler.sequence,
     timestamp |-> clock]

\* a slip at line 111: insert(0, ...) puts the message at the front
QueueAppendAtFront(q, r, message_data) ==
    DictSet(q, r, <<message_data>> \o QueueGet(q, r))

\* a slip at lines 108-109: the test dropped, the queue is made anew each time
QueueAppendOverwrites(q, r, message_data) == DictSet(q, r, <<message_data>>)

\* lines 108-111: the queue of the room, created when absent, with the message appended
QueueAppend(q, r, message_data) == DictSet(q, r, Append(QueueGet(q, r), message_data))

\* lines 94-111: build the message and append it to the room's queue
SendAudioBuild(id) ==
    /\ handler.op = "send_audio"
    /\ handler.pc = "build"
    /\ IF handler.sender_id \in DOMAIN active_players
         THEN /\ voice_message_queue' = QueueAppend(voice_message_queue, handler.room_id,
                                                    MessageData(id))
              /\ published' = [published EXCEPT
                                 ![handler.room_id] = Append(@, MessageData(id))]
              /\ handler' = [op |-> "send_audio", sender_id |-> handler.sender_id,
                             room_id |-> handler.room_id,
                             audio_data |-> handler.audio_data,
                             sequence |-> handler.sequence, message_id |-> id,
                             pc |-> "truncate"]
              /\ UNCHANGED response
         ELSE /\ handler' = [handler EXCEPT !.pc = "done"]
              /\ response' = ServerError("KeyError")
              /\ UNCHANGED <<voice_message_queue, published, swept>>
    /\ UNCHANGED <<active_players, active_keys, clock, sweeps, pending, swept>>

\* a slip at line 115: [:50] keeps the oldest 50 messages
QueueTruncateKeepsOldest(messages) ==
    IF Len(messages) > QueueCap THEN SubSeq(messages, 1, QueueCap) ELSE messages

\* lines 114-115: keep only the last 50 messages of the room
QueueTruncate(messages) ==
    IF Len(messages) > QueueCap THEN LastSlice(messages, QueueCap) ELSE messages

\* lines 114-121: truncate the queue, add the cleanup task, return the message id
SendAudioTruncate ==
    /\ handler.op = "send_audio"
    /\ handler.pc = "truncate"
    /\ voice_message_queue' = [voice_message_queue EXCEPT
                                 ![handler.room_id] = QueueTruncate(@)]
    /\ pending' = pending + 1
    /\ handler' = [handler EXCEPT !.pc = "done"]
    /\ response' = [status |-> "success", message_id |-> handler.message_id]
    /\ UNCHANGED <<active_players, active_keys, clock, sweeps, published, swept>>

(***************************************************************************)
(* GET /api/get_audio/{room_id}/{player_id}                                *)
(***************************************************************************)
\* a slip at lines 130-131: the check left out
GetAudioCheckSkipped(r, p) ==
    /\ handler.pc = "idle"
    /\ handler' = [op |-> "get_audio", room_id |-> r, player_id |-> p, pc |-> "touch"]
    /\ response' = NoResponse
    /\ UNCHANGED <<active_players, active_keys, voice_message_queue, clock, sweeps,
                   pending, published, swept>>

\* line 130: if player_id not in active_players
GetAudioCheck(r, p) ==
    /\ handler.pc = "idle"
    /\ LET request == [op |-> "get_audio", room_id |-> r, player_id |-> p, pc |-> "touch"]
       IN  IF p \notin DOMAIN active_players
             THEN /\ handler' = [request EXCEPT !.pc = "done"]
                  /\ response' = ClientError("UnregisteredReceiver")
             ELSE /\ handler' = request
                  /\ response' = NoResponse
    /\ UNCHANGED <<active_players, active_keys, voice_message_queue, clock, sweeps,
                   pending, published, swept>>

\* line 133: active_players[player_id]['last_seen'] = time.time()
GetAudioTouch ==
    /\ handler.op = "get_audio"
    /\ handler.pc = "touch"
    /\ IF handler.player_id \in DOMAIN active_players
         THEN /\ active_players' = [active_players EXCEPT
                                      ![handler.player_id].last_seen = clock]
              /\ handler' = [handler EXCEPT !.pc = "read"]
              /\ UNCHANGED response
         ELSE /\ handler' = [handler EXCEPT !.pc = "done"]
              /\ response' = ServerError("KeyError")
              /\ UNCHANGED active_players
    /\ UNCHANGED <<active_keys, voice_message_queue, clock, sweeps, pending, published, swept>>

\* a slip at line 146: [:10] returns the oldest 10 messages
PollMessagesOldest(q, r, p) ==
    LET filtered_messages == FilterMessages(QueueGet(q, r), p)
    IN  IF Len(filtered_messages) <= PollWindow
          THEN filtered_messages
          ELSE SubSeq(filtered_messages, 1, PollWindow)

\* lines 136-146: the messages of the room not sent by the player, the last 10 of them
PollMessages(q, r, p) == LastSlice(FilterMessages(QueueGet(q, r), p), PollWindow)

\* line 141 put back: the queue is cleared once its messages are read
GetAudioReturnClearsQueue ==
    /\ handler.op = "get_audio"
    /\ handler.pc = "read"
    /\ handler' = [handler EXCEPT !.pc = "done"]
    /\ response' = [status |-> "success",
                    room |-> handler.room_id,
                    messages |-> PollMessages(voice_message_queue, handler.room_id,
                                              handler.player_id),
                    player_count |-> PlayerCount(active_players, handler.room_id)]
    /\ voice_message_queue' = DictSet(voice_message_queue, handler.room_id, <<>>)
    /\ UNCHANGED <<active_players, active_keys, clock, sweeps, pending, published, swept>>

\* lines 136-148
GetAudioReturn ==
    /\ handler.op = "get_audio"
    /\ handler.pc = "read"
    /\ handler' = [handler EXCEPT !.pc = "done"]
    /\ response' = [status |-> "success",
                    room |-> handler.room_id,
                    messages |-> PollMessages(voice_message_queue, handler.room_id,
                                              handler.player_id),
                    player_count |-> PlayerCount(active_players, handler.room_id)]
    /\ UNCHANGED <<active_players, active_keys, voice_message_queue, clock, sweeps,
                   pending, published, swept>>

(***************************************************************************)
(* cleanup_old_players, run by thread t (a worker, or the loop thread      *)
(* inside get_room_players)                                                *)
(***************************************************************************)
\* lines 43-46: read the time once, start with an empty list, open the dict iterator
SweepEntered ==
    [phase |-> "scan", current_time |-> clock, players_to_remove |-> <<>>,
     it_pos |-> 1, it_used |-> DictLen(active_players)]

\* a slip at line 47: >= 30 removes a player idle for exactly 30 seconds
IsStaleInclusive(current_time, data) == current_time - data.last_seen >= LivenessTimeout

\* line 47: current_time - data.get('last_seen', 0) > 30
IsStale(current_time, data) == current_time - data.last_seen > LivenessTimeout

\* the call of thread t goes on in state s
SweepGoesOn(t, s) ==
    /\ sweeps' = [sweeps EXCEPT ![t] = s]
    /\ UNCHANGED <<handler, response, swept>>

\* the call of thread t returns: get_room_players goes on to build its list
SweepReturns(t) ==
    /\ sweeps' = [sweeps EXCEPT ![t] = IdleSweep]
    /\ swept' = [swept EXCEPT ![t] = EmptyDict]
    /\ IF t = "loop"
         THEN handler' = [handler EXCEPT !.pc = "list"]
         ELSE UNCHANGED handler
    /\ UNCHANGED response

\* the call of thread t raises: in get_room_players the request fails, in a
\* background task the exception ends the task
SweepRaises(t, exception) ==
    /\ sweeps' = [sweeps EXCEPT ![t] = IdleSweep]
    /\ swept' = [swept EXCEPT ![t] = EmptyDict]
    /\ IF t = "loop"
         THEN /\ handler' = [handler EXCEPT !.pc = "done"]
              /\ response' = ServerError(exception)
         ELSE UNCHANGED <<handler, response>>

\* player_id -> last_seen
LastSeen(d) == [p \in DOMAIN d |-> d[p].last_seen]

\* a worker thread starts a background task added at line 118
SweepStart(w) ==
    /\ pending > 0
    /\ sweeps[w].phase = "idle"
    /\ pending' = pending - 1
    /\ sweeps' = [sweeps EXCEPT ![w] = SweepEntered]
    /\ swept' = [swept EXCEPT ![w] = LastSeen(active_players)]
    /\ UNCHANGED <<active_players, active_keys, voice_message_queue, clock, handler,
                   response, published>>

\* lines 46-48: one turn of the loop over active_players.items().  The iterator
\* raises when the dict's size differs from the size it was opened with.
SweepScan(t) ==
    /\ sweeps[t].phase = "scan"
    /\ LET s == sweeps[t]
           i == NextEntry(active_keys, s.it_pos)
       IN  IF s.it_used # DictLen(active_players)
             THEN SweepRaises(t, "RuntimeError")
             ELSE IF i = 0
               THEN IF s.players_to_remove = <<>>
                      THEN SweepReturns(t)
                      ELSE SweepGoesOn(t, [s EXCEPT !.phase = "remove"])
               ELSE SweepGoesOn(t, [s EXCEPT
                      !.it_pos = i + 1,
                      !.players_to_remove =
                          IF IsStale(s.current_time, active_players[active_keys[i]])
                            THEN Append(@, active_keys[i])
                            ELSE @])
    /\ UNCHANGED <<active_players, active_keys, voice_message_queue, clock, pending,
                   published>>

\* lines 50-53: one turn of the loop over players_to_remove
SweepRemove(t) ==
    /\ sweeps[t].phase = "remove"
    /\ LET s == sweeps[t]
           player_id == Head(s.players_to_remove)
       IN  IF player_id \notin DOMAIN active_players
             THEN /\ SweepRaises(t, "KeyError")
                  /\ UNCHANGED <<active_players, active_keys>>
             ELSE /\ active_players' = DictPop(active_players, player_id)
                  /\ active_keys' = KeysAfterPop(active_keys, player_id)
                  /\ IF Tail(s.players_to_remove) = <<>>
                       THEN SweepReturns(t)
                       ELSE SweepGoesOn(t, [s EXCEPT !.players_to_remove = Tail(@)])
    /\ UNCHANGED <<voice_message_queue, clock, pending, published>>

(***************************************************************************)
(* GET /api/players/{room_id}                                              *)
(***************************************************************************)
\* line 153: call cleanup_old_players on the loop thread
GetRoomPlayersBegin(r) ==
    /\ handler.pc = "idle"
    /\ handler' = [op |-> "get_room_players", room_id |-> r, pc |-> "cleanup"]
    /\ sweeps' = [sweeps EXCEPT !["loop"] = SweepEntered]
    /\ swept' = [swept EXCEPT !["loop"] = LastSeen(active_players)]
    /\ UNCHANGED <<active_players, active_keys, voice_message_queue, clock, response,
                   pending, published>>

\* lines 155-162: the players of the room, in the dict's order
RoomPlayers(d, keys, r) ==
    LET in_room == SelectSeq(LiveKeys(keys), LAMBDA p : d[p].room_id = r)
    IN  [i \in DOMAIN in_room |->
            [id |-> in_room[i], name |-> d[in_room[i]].name,
             last_seen |-> d[in_room[i]].last_seen]]

\* lines 155-164
GetRoomPlayersReturn ==
    /\ handler.op = "get_room_players"
    /\ handler.pc = "list"
    /\ handler' = [handler EXCEPT !.pc = "done"]
    /\ response' = [room |-> handler.room_id,
                    players |-> RoomPlayers(active_players, active_keys, handler.room_id),
                    count |-> Len(RoomPlayers(active_players, active_keys,
                                              handler.room_id)),
                    status |-> "success"]
    /\ UNCHANGED <<active_players, active_keys, voice_message_queue, clock, sweeps,
                   pending, published, swept>>

(***************************************************************************)
(* The server: requests of any kind arrive in any order, the worker runs   *)
(* the background tasks, time passes                                       *)
(***************************************************************************)
Next ==
    \/ \E x \in RegisterRequests :
          /\ x[1] \in DOMAIN active_players \/ Len(active_keys) < MaxDictEntries
          /\ Register(x[1], x[2], x[3])
    \/ \E x \in SendRequests :
          /\ x[1] \in DOMAIN active_players => TotalPublished < MaxPublished
          /\ pending < MaxPending
          /\ SendAudioCheck(x[1], x[2], x[3], x[4])
    \/ SendAudioTouch
    \/ \E id \in MessageIds : SendAudioBuild(id)
    \/ SendAudioTruncate
    \/ \E x \in PollRequests : GetAudioCheck(x[1], x[2])
    \/ GetAudioTouch
    \/ GetAudioReturn
    \/ \E r \in ListRequests : GetRoomPlayersBegin(r)
    \/ GetRoomPlayersReturn
    \/ Respond
    \/ \E w \in Workers : SweepStart(w)
    \/ \E t \in SweepIds : SweepScan(t)
    \/ \E t \in SweepIds : SweepRemove(t)
    \/ \E i \in Instants : i > clock /\ Tick(i - clock)

Spec == Init /\ [][Next]_vars

(***************************************************************************)
(* The relay under load: two players of room r1 publish in turn (every     *)
(* third message is B's, every seventh goes to room r2), poll and list at  *)
(* any moment; the packets are numbered, every fifth one wrongly with 1;   *)
(* the uuid tokens drawn are all different.  No time passes while messages *)
(* are sent, so the sweeps that run then find nobody to remove; once the   *)
(* last message is sent the players fall idle, and B may move to room r2   *)
(* under another name.                                                     *)
(***************************************************************************)
RelayMaxPublished == 60

RelayRegisterRequests == {<<"A", "n1", "r1">>, <<"B", "n2", "r1">>}
RelayLateRegisterRequests == {<<"B", "n1", "r2">>}
RelayPollRequests == {<<"r1", "A">>, <<"r1", "B">>, <<"r2", "A">>}
RelaySender(k) == IF k % 3 = 0 THEN "B" ELSE "A"
RelayRoom(k) == IF k % 7 = 0 THEN "r2" ELSE "r1"
RelaySequence(k) == IF k % 5 = 0 THEN 1 ELSE k

RelayNext ==
    \/ \E x \in RelayRegisterRequests : Register(x[1], x[2], x[3])
    \/ /\ TotalPublished = RelayMaxPublished
       /\ \E x \in RelayLateRegisterRequests : Register(x[1], x[2], x[3])
    \/ /\ TotalPublished < RelayMaxPublished
       /\ pending < MaxPending
       /\ SendAudioCheck(RelaySender(TotalPublished + 1), RelayRoom(TotalPublished + 1),
                         "blob", RelaySequence(TotalPublished + 1))
    \/ SendAudioTouch
    \/ SendAudioBuild(TotalPublished + 1)
    \/ SendAudioTruncate
    \/ \E x \in RelayPollRequests : GetAudioCheck(x[1], x[2])
    \/ GetAudioTouch
    \/ GetAudioReturn
    \/ \E r \in ListRequests : GetRoomPlayersBegin(r)
    \/ GetRoomPlayersReturn
    \/ Respond
    \/ \E w \in Workers : SweepStart(w)
    \/ \E t \in SweepIds : SweepScan(t)
    \/ \E t \in SweepIds : SweepRemove(t)
    \/ /\ TotalPublished = RelayMaxPublished
       /\ handler.pc = "idle"
       /\ \E i \in Instants : i > clock /\ Tick(i - clock)

RelaySpec == Init /\ [][RelayNext]_vars

(***************************************************************************)
(* One client alone: player A registers in r1, publishes and polls, with   *)
(* idle periods in between; the background tasks of A's publishes run on   *)
(* the worker; the uuid token of each publish is any of MessageIds.        *)
(***************************************************************************)
SoloMaxPublished == 2

SoloNext ==
    \/ Register("A", "n1", "r1")
    \/ /\ "A" \in DOMAIN active_players => TotalPublished < SoloMaxPublished
       /\ pending < MaxPending
       /\ SendAudioCheck("A", "r1", "blob", 1)
    \/ SendAudioTouch
    \/ \E id \in MessageIds : SendAudioBuild(id)
    \/ SendAudioTruncate
    \/ GetAudioCheck("r1", "A")
    \/ GetAudioTouch
    \/ GetAudioReturn
    \/ Respond
    \/ \E w \in Workers : SweepStart(w)
    \/ \E w \in Workers : SweepScan(w)
    \/ \E w \in Workers : SweepRemove(w)
    \/ \E i \in Instants : i > clock /\ handler.pc = "idle" /\ Tick(i - clock)

SoloSpec == Init /\ [][SoloNext]_vars

(***************************************************************************)
(* Properties of the relay                                                 *)
(***************************************************************************)
\* a publish has appended its message and not yet truncated the queue of room r
MidPublish(r) == handler.pc = "truncate" /\ handler.room_id = r

\* the last n elements of h (all of h when it is shorter), by index
MostRecent(h, n) ==
    LET k == IF Len(h) < n THEN Len(h) ELSE n
    IN  [i \in 1..k |-> h[Len(h) - k + i]]

\* a successful poll has returned and its response is not yet sent
PollReturned ==
    /\ handler.op = "get_audio"
    /\ handler.pc = "done"
    /\ response.status = "success"

\* C1: whenever no publish is between its append and its truncation, every
\* room's queue holds at most 50 messages, and they are the most recently
\* published min(50, n) messages of the room, in publish order.
BoundedQueue ==
    \A r \in DOMAIN voice_message_queue :
        ~MidPublish(r) =>
            /\ Len(voice_message_queue[r]) <= 50
            /\ voice_message_queue[r] = MostRecent(published[r], 50)

\* more than 50 messages were published to r1, and its queue holds 50
BoundedQueueWitness ==
    /\ handler.pc = "idle"
    /\ Len(published["r1"]) > 50
    /\ Len(voice_message_queue["r1"]) = 50
    /\ voice_message_queue["r1"][1] = published["r1"][Len(published["r1"]) - 49]

\* C3: a successful poll returns the last min(10, n) of the n messages of the
\* room's queue whose sender is not the poller, oldest first: its j-th message
\* is the eligible message with exactly k - j eligible messages after it.
PollWindowExact ==
    PollReturned =>
        LET q == QueueGet(voice_message_queue, handler.room_id)
            eligible == {i \in DOMAIN q : q[i].sender_id # handler.player_id}
            n == Cardinality(eligible)
            k == IF n < 10 THEN n ELSE 10
            At(j) == CHOOSE i \in eligible :
                        Cardinality({x \in eligible : x > i}) = k - j
        IN  /\ Len(response.messages) = k
            /\ Len(response.messages) <= 10
            /\ \A j \in 1..k : response.messages[j] = q[At(j)]

\* a poll returned 10 messages out of more than 10 eligible ones, which do not
\* lie next to each other in the queue
PollWindowWitness ==
    /\ PollReturned
    /\ Len(response.messages) = 10
    /\ LET q == voice_message_queue[handler.room_id]
       IN  /\ Cardinality({i \in DOMAIN q : q[i].sender_id # handler.player_id}) > 10
           /\ q[Len(q)].sender_id = handler.player_id
           /\ q[Len(q) - 1].sender_id # handler.player_id

\* the place of message m in the publish history of room r
PublishIndex(r, m) == CHOOSE i \in DOMAIN published[r] : published[r][i] = m

\* the messages of sequence s
Range(s) == {s[i] : i \in DOMAIN s}

\* in s, messages stand in the order they were published to room r: each was
\* published to r, and before the one that follows it in s
InPublishOrder(r, s) ==
    /\ \A i \in DOMAIN s : s[i] \in Range(published[r])
    /\ \A i \in DOMAIN s :
          i < Len(s) => PublishIndex(r, s[i]) < PublishIndex(r, s[i + 1])

\* every queue and every poll result is in publish order
FifoVisible ==
    /\ \A r \in DOMAIN voice_message_queue : InPublishOrder(r, voice_message_queue[r])
    /\ PollReturned => InPublishOrder(handler.room_id, response.messages)

\* a step never drops a message from a queue while keeping an older one: when
\* a message goes, the one before it in the queue goes too
FifoEviction ==
    \A r \in DOMAIN voice_message_queue :
        LET q == voice_message_queue[r]
            kept == Range(voice_message_queue'[r])
        IN  \A j \in DOMAIN q :
                (j > 1 /\ q[j] \notin kept) => q[j - 1] \notin kept

\* C9: messages are visible in publish order, in the queue and in every poll
\* result, and eviction takes the oldest first.
FifoOrder == []FifoVisible /\ [][FifoEviction]_vars

\* a poll returned several messages after the cap has evicted some
FifoOrderWitness ==
    /\ PollReturned
    /\ Len(response.messages) >= 2
    /\ Len(published[handler.room_id]) > 50

\* C2: no message a successful poll returns was sent by the poller; when one
\* message was published to the room, its sender's poll returns nothing and
\* anyone else's poll returns exactly that message.
SelfExclusion ==
    PollReturned =>
        /\ \A i \in DOMAIN response.messages :
              response.messages[i].sender_id # handler.player_id
        /\ Len(published[handler.room_id]) = 1 =>
              response.messages =
                  IF published[handler.room_id][1].sender_id = handler.player_id
                    THEN <<>>
                    ELSE published[handler.room_id]

\* A and B are in r1, only A has published, one message, and B's poll returned it
SelfExclusionWitness ==
    /\ PollReturned
    /\ handler.player_id = "B"
    /\ handler.room_id = "r1"
    /\ {"A", "B"} \subseteq DOMAIN active_players
    /\ active_players["A"].room_id = "r1"
    /\ active_players["B"].room_id = "r1"
    /\ Len(published["r1"]) = 1
    /\ published["r1"][1].sender_id = "A"
    /\ response.messages = published["r1"]

(***************************************************************************)
(* Properties of the presence registry                                     *)
(***************************************************************************)
\* the step is one of the sweep run by thread t
SweepStep(t) == sweeps[t].phase # "idle" /\ sweeps'[t] # sweeps[t]

\* the next step of the sweep run by thread t raises
SweepAboutToRaise(t) ==
    \/ sweeps[t].phase = "scan" /\ sweeps[t].it_used # DictLen(active_players)
    \/ /\ sweeps[t].phase = "remove"
       /\ Head(sweeps[t].players_to_remove) \notin DOMAIN active_players

\* the step is the one in which the sweep run by thread t returns
SweepCompletes(t) ==
    /\ sweeps[t].phase # "idle"
    /\ sweeps'[t].phase = "idle"
    /\ ~SweepAboutToRaise(t)

\* when the sweep returns, no entry it found at its start more than 30 seconds
\* old is left with the last_seen it had
StaleGone(t) ==
    \A p \in DOMAIN swept[t] :
        sweeps[t].current_time - swept[t][p] > 30
            => ~(p \in DOMAIN active_players' /\ active_players'[p].last_seen = swept[t][p])

\* no step of the sweep removes or changes an entry that was at most 30 seconds
\* old at its start
FreshKept(t) ==
    \A p \in DOMAIN swept[t] \cap DOMAIN active_players :
        sweeps[t].current_time - swept[t][p] <= 30
            => /\ p \in DOMAIN active_players'
               /\ active_players'[p] = active_players[p]

\* C4: a sweep that completes leaves no untouched entry idle for more than 30
\* seconds at its reference time, and keeps every entry idle for 30 seconds or
\* less as it is.
LivenessExpiry ==
    [][\A t \in SweepIds :
          /\ SweepCompletes(t) => StaleGone(t)
          /\ SweepStep(t) => FreshKept(t)]_vars

\* get_room_players has swept at time 31: A, last seen at 0, is gone and B,
\* last seen at 30, is listed next
LivenessExpiryWitness ==
    /\ handler.op = "get_room_players"
    /\ handler.pc = "list"
    /\ clock = 31
    /\ active_keys = <<Dummy, "B">>
    /\ active_players["B"].last_seen = 30

\* the step is a register request handled
RegisterStep == handler.pc = "idle" /\ handler'.op = "register"

\* C5: the dict holds each player once, and a register leaves the player's
\* entry with the room, name and time of the request, listed in that room and
\* in no other.
IdempotentRegistration ==
    /\ [](\A i, j \in DOMAIN active_keys :
              (active_keys[i] = active_keys[j] /\ active_keys[i] # Dummy) => i = j)
    /\ [](Range(active_keys) \ {Dummy} = DOMAIN active_players)
    /\ [][RegisterStep =>
            /\ handler'.player_id \in DOMAIN active_players'
            /\ active_players'[handler'.player_id] =
                  [name |-> handler'.player_name, room_id |-> handler'.room_id,
                   last_seen |-> clock]
            /\ \A r \in Rooms :
                  Cardinality({i \in DOMAIN RoomPlayers(active_players', active_keys', r) :
                      RoomPlayers(active_players', active_keys', r)[i].id
                          = handler'.player_id})
                  = IF r = handler'.room_id THEN 1 ELSE 0]_vars

\* A, who published to r1 under the name n1, has registered again, in r2
IdempotentRegistrationWitness ==
    /\ handler.op = "register"
    /\ handler.pc = "done"
    /\ handler.player_id = "A"
    /\ handler.room_id = "r2"
    /\ active_players["A"] = [name |-> "n2", room_id |-> "r2", last_seen |-> 30]
    /\ \E i \in DOMAIN published["r1"] :
          /\ published["r1"][i].sender_id = "A"
          /\ published["r1"][i].sender_name = "n1"

\* the step takes up a send_audio request of a sender who is not registered
UnregisteredPublish ==
    /\ handler.pc = "idle"
    /\ handler'.op = "send_audio"
    /\ handler'.sender_id \notin DOMAIN active_players

\* C6: a publish by a sender absent from the registry fails with
\* UnregisteredSender and changes neither the registry nor any queue, and adds
\* no background task.
UnregisteredSenderRefused ==
    [][UnregisteredPublish =>
          /\ handler'.pc = "done"
          /\ response' = [status |-> "error", code |-> 400,
                          detail |-> "UnregisteredSender"]
          /\ UNCHANGED <<active_players, active_keys, voice_message_queue, pending,
                         sweeps, published>>]_vars

\* a sender whose message is still in a queue was removed by a sweep, and the
\* sender's next publish was refused
UnregisteredSenderWitness ==
    /\ handler.op = "send_audio"
    /\ handler.pc = "done"
    /\ response = ClientError("UnregisteredSender")
    /\ handler.sender_id \notin DOMAIN active_players
    /\ \E r \in DOMAIN voice_message_queue : \E i \in DOMAIN voice_message_queue[r] :
          voice_message_queue[r][i].sender_id = handler.sender_id

\* the step takes up a get_audio request of a player who is not registered
UnregisteredPoll ==
    /\ handler.pc = "idle"
    /\ handler'.op = "get_audio"
    /\ handler'.player_id \notin DOMAIN active_players

\* C7: a poll by a player absent from the registry fails with
\* UnregisteredReceiver, carries neither messages nor a player count, and changes
\* neither the registry nor any queue.
UnregisteredReceiverRefused ==
    [][UnregisteredPoll =>
          /\ handler'.pc = "done"
          /\ response' = [status |-> "error", code |-> 400,
                          detail |-> "UnregisteredReceiver"]
          /\ UNCHANGED <<active_players, active_keys, voice_message_queue, pending,
                         sweeps, published>>]_vars

\* a poll of a room that holds a message was refused
UnregisteredReceiverWitness ==
    /\ handler.op = "get_audio"
    /\ handler.pc = "done"
    /\ response = ClientError("UnregisteredReceiver")
    /\ handler.player_id \notin DOMAIN active_players
    /\ handler.room_id \in DOMAIN voice_message_queue
    /\ Len(voice_message_queue[handler.room_id]) > 0

\* the step is one of a get_audio request
PollStep ==
    /\ handler' # handler
    /\ handler.op = "get_audio" \/ handler'.op = "get_audio"

\* the player whose get_audio request the step belongs to
Poller == IF handler.op = "get_audio" THEN handler.player_id ELSE handler'.player_id

\* C8: no step of a poll changes a queue; in the registry it changes at most
\* the poller's last_seen, which it sets to the current time.
PollNonDestructive ==
    [][PollStep =>
          /\ voice_message_queue' = voice_message_queue
          /\ active_keys' = active_keys
          /\ DOMAIN active_players' = DOMAIN active_players
          /\ \A p \in DOMAIN active_players :
                \/ active_players'[p] = active_players[p]
                \/ /\ p = Poller
                   /\ active_players'[p] = [active_players[p] EXCEPT !.last_seen = clock]]_vars

\* a poll has returned a message, which is still in the queue
PollNonDestructiveWitness ==
    /\ PollReturned
    /\ Len(response.messages) > 0
    /\ response.messages = FilterMessages(voice_message_queue[handler.room_id],
                                          handler.player_id)
    /\ active_players[handler.player_id].last_seen > 0

\* C10: a sweep removes no entry touched since the sweep read the time: the
\* entry a sweep step removes is more than 30 seconds old at the sweep's
\* reference time when it is removed.
SweepSparesTouched ==
    [][\A t \in SweepIds : \A p \in DOMAIN active_players :
          (SweepStep(t) /\ p \notin DOMAIN active_players')
              => sweeps[t].current_time - active_players[p].last_seen > 30]_vars
(***************************************************************************)
(* Properties of requests racing with the sweep                            *)
(***************************************************************************)
\* a publish or a poll has ended, with a result or with an error
RequestEnded(op) == handler.op = op /\ handler.pc = "done"

\* C11: whatever the background sweep does meanwhile, a publish ends either
\* with the UnregisteredSender error or with success and a message id, and a
\* poll either with the UnregisteredReceiver error or with success.
PublishOutcomes ==
    /\ RequestEnded("send_audio") =>
          \/ response = ClientError("UnregisteredSender")
          \/ response.status = "success"
    /\ RequestEnded("get_audio") =>
          \/ response = ClientError("UnregisteredReceiver")
          \/ response.status = "success"
\* C12: sweeps run to completion whatever runs beside them: no sweep is ever
\* about to raise, neither when another sweep has removed a player it
\* collected nor when a register has added a player during its scan.
SweepsNeverRaise == \A t \in SweepIds : ~SweepAboutToRaise(t)

\* a send_audio request is between its check and its return
PublishRunning == handler.op = "send_audio" /\ handler.pc \in {"touch", "build", "truncate"}

\* the step is one the event loop takes in a request
HandlerStep == handler' # handler

\* C13: a publish runs alone on its room's queue.  While it runs no other
\* step changes a queue; every other step of a request starts with all queues
\* within the cap; its append keeps every message of the queue and adds its
\* own; its truncation leaves at most 50 messages, its own message last, and
\* drops messages only from a queue that was over the cap.  So the queue after
\* the publish is the queue before it with the message appended and the cap
\* applied, the publishes taking effect one after the other.
PublishAtomic ==
    [][/\ (PublishRunning /\ voice_message_queue' # voice_message_queue)
            => (HandlerStep /\ handler'.op = "send_audio")
       /\ (HandlerStep /\ handler.pc # "truncate")
            => \A r \in DOMAIN voice_message_queue : Len(voice_message_queue[r]) <= 50
       /\ (HandlerStep /\ handler.pc = "build" /\ handler'.pc = "truncate")
            => LET q == QueueGet(voice_message_queue, handler.room_id)
                   after == voice_message_queue'[handler.room_id]
               IN  /\ Len(after) = Len(q) + 1
                   /\ SubSeq(after, 1, Len(q)) = q
                   /\ after[Len(after)].id = handler'.message_id
       /\ (HandlerStep /\ handler.pc = "truncate")
            => LET q == voice_message_queue[handler.room_id]
                   after == voice_message_queue'[handler.room_id]
               IN  /\ response' = [status |-> "success", message_id |-> handler.message_id]
                   /\ Len(after) <= 50
                   /\ after = MostRecent(q, 50)
                   /\ after[Len(after)] = q[Len(q)]
                   /\ after[Len(after)].id = handler.message_id
                   /\ Range(q) # Range(after) => (Len(q) > 50 /\ Len(after) = 50)]_vars

\* a publish to a full queue has returned: the queue holds 50 messages again,
\* the new one last, and the oldest one of before is gone
PublishAtomicWitness ==
    /\ RequestEnded("send_audio")
    /\ response.status = "success"
    /\ Len(published[handler.room_id]) > 51
    /\ LET q == voice_message_queue[handler.room_id]
           h == published[handler.room_id]
       IN  /\ Len(q) = 50
           /\ q[50].id = response.message_id
           /\ h[Len(h) - 50] \notin Range(q)

\* C14: a get_room_players request never fails: it ends with the list of the
\* players registered in the room and a count equal to the length of the list.
ListPlayersNeverFails ==
    RequestEnded("get_room_players") =>
        /\ response.status = "success"
        /\ response.count = Len(response.players)
        /\ {response.players[i].id : i \in DOMAIN response.players}
              = {p \in DOMAIN active_players :
                    active_players[p].room_id = handler.room_id}

\* the players of room r last seen at most 30 seconds before time now
LivePlayers(r, now) ==
    {p \in DOMAIN active_players :
        /\ active_players[p].room_id = r
        /\ now - active_players[p].last_seen <= 30}

\* the time of the running poll: the one it read at line 133
PollTime == active_players[handler.player_id].last_seen

\* C15: the player_count a successful poll returns is the number of players
\* registered in the polled room and last seen at most 30 seconds before the
\* poll.
PollCountsLivePlayers ==
    [][(HandlerStep /\ handler.op = "get_audio" /\ handler.pc = "read"
           /\ handler.player_id \in DOMAIN active_players)
          => response'.player_count =
                Cardinality(LivePlayers(handler.room_id, PollTime))]_vars

\* C16: a poll or a list of a room in which nobody is registered succeeds
\* with empty results: the poll returns no messages and a player_count of 0,
\* the list no players and a count of 0.
StaleRoomEmpty ==
    [][/\ (/\ HandlerStep
            /\ handler.op = "get_audio"
            /\ handler.pc = "read"
            /\ PlayerCount(active_players, handler.room_id) = 0)
              => /\ response'.status = "success"
                 /\ response'.messages = <<>>
                 /\ response'.player_count = 0
       /\ (/\ HandlerStep
            /\ handler.op = "get_room_players"
            /\ handler.pc = "list"
            /\ PlayerCount(active_players, handler.room_id) = 0)
              => /\ response'.status = "success"
                 /\ response'.players = <<>>
                 /\ response'.count = 0]_vars

\* the step is one of a send_audio request
PublishStep ==
    /\ HandlerStep
    /\ handler.op = "send_audio" \/ handler'.op = "send_audio"

\* the player whose send_audio request the step belongs to
Publisher == IF handler.op = "send_audio" THEN handler.sender_id ELSE handler'.sender_id

\* the step leaves the registry as it is but for the last_seen of player c,
\* which it may set to the current time
TouchesOnly(c) ==
    /\ active_keys' = active_keys
    /\ DOMAIN active_players' = DOMAIN active_players
    /\ \A p \in DOMAIN active_players :
          \/ active_players'[p] = active_players[p]
          \/ /\ p = c
             /\ active_players'[p] = [active_players[p] EXCEPT !.last_seen = clock]

\* the step is the removal, by the sweep of thread t, of player p, whom the
\* sweep collected and who was idle for more than 30 seconds when it began
Evicts(t, p) ==
    /\ SweepStep(t)
    /\ sweeps[t].phase = "remove"
    /\ Head(sweeps[t].players_to_remove) = p
    /\ p \in DOMAIN swept[t]
    /\ sweeps[t].current_time - swept[t][p] > 30

\* the step is one in which the scan of thread t collects a player
Collects(t) ==
    /\ SweepStep(t)
    /\ sweeps[t].phase = "scan"
    /\ sweeps'[t].phase = "scan"
    /\ sweeps'[t].players_to_remove # sweeps[t].players_to_remove

\* C17: a player enters the registry only by the player's own register and
\* leaves it only by the removal step of a sweep that collected the player,
\* and a sweep collects only players it finds idle for more than 30 seconds;
\* publish and poll change nothing in the registry but the caller's
\* last_seen, whatever room the request names.
PlayerStateMachine ==
    [][/\ \A p \in Players :
            /\ (p \notin DOMAIN active_players /\ p \in DOMAIN active_players')
                  => (RegisterStep /\ handler'.player_id = p)
            /\ (p \in DOMAIN active_players /\ p \notin DOMAIN active_players')
                  => \E t \in SweepIds : Evicts(t, p)
       /\ \A t \in SweepIds :
            Collects(t) =>
                LET p == sweeps'[t].players_to_remove[Len(sweeps'[t].players_to_remove)]
                IN  /\ sweeps'[t].players_to_remove = Append(sweeps[t].players_to_remove, p)
                    /\ p \in DOMAIN active_players
                    /\ sweeps[t].current_time - active_players[p].last_seen > 30
       /\ PublishStep => TouchesOnly(Publisher)
       /\ PollStep => TouchesOnly(Poller)]_vars

\* a sweep has evicted a player, and A, registered in r2, has then published
\* to r1: A's entry has the new last_seen and still room r2
PlayerStateMachineWitness ==
    /\ RequestEnded("send_audio")
    /\ response.status = "success"
    /\ handler.room_id = "r1"
    /\ Dummy \in Range(active_keys)
    /\ "A" \in DOMAIN active_players
    /\ active_players["A"] = [name |-> "n2", room_id |-> "r2", last_seen |-> 31]

\* every message in a queue is as its sender sent it: the k-th message of the
\* relay workload has the sender, payload and sequence number of the k-th
\* request and the name its sender had then
StoredAsSent ==
    \A r \in DOMAIN voice_message_queue : \A i \in DOMAIN voice_message_queue[r] :
        LET m == voice_message_queue[r][i]
        IN  /\ r = RelayRoom(m.id)
            /\ m.sender_id = RelaySender(m.id)
            /\ m.sender_name = (IF m.sender_id = "A" THEN "n1" ELSE "n2")
            /\ m.audio_data = "blob"
            /\ m.sequence = RelaySequence(m.id)
            /\ m.timestamp = 0

\* a step leaves each queue as it is, or appends the message of the running
\* publish to it, or drops messages from its front; a new queue is empty or
\* holds that message; a register or a sweep step changes no message
RetainedUnchanged ==
    /\ \A r \in DOMAIN voice_message_queue :
          /\ r \in DOMAIN voice_message_queue'
          /\ LET old == voice_message_queue[r]
                 new == voice_message_queue'[r]
             IN  \/ new = old
                 \/ /\ PublishStep
                    /\ handler.pc = "build"
                    /\ r = handler.room_id
                    /\ Len(new) = Len(old) + 1
                    /\ SubSeq(new, 1, Len(old)) = old
                    /\ new[Len(new)] =
                          [id |-> handler'.message_id,
                           sender_id |-> handler.sender_id,
                           sender_name |-> active_players[handler.sender_id].name,
                           audio_data |-> handler.audio_data,
                           sequence |-> handler.sequence,
                           timestamp |-> clock]
                 \/ /\ PublishStep
                    /\ handler.pc = "truncate"
                    /\ r = handler.room_id
                    /\ \E k \in 1..Len(old) : new = SubSeq(old, k + 1, Len(old))
    /\ \A r \in DOMAIN voice_message_queue' \ DOMAIN voice_message_queue :
          \/ voice_message_queue'[r] = <<>>
          \/ PublishStep /\ Len(voice_message_queue'[r]) = 1
    /\ (RegisterStep \/ \E t \in SweepIds : SweepStep(t))
          => \A r \in DOMAIN voice_message_queue :
                voice_message_queue'[r] = voice_message_queue[r]

\* C18: a message in a queue is what its sender sent, with the sender's name
\* of then and the sequence number supplied, and stays so while retained: no
\* step alters a retained message or the order of the queue, and no register
\* or sweep step removes one.
FragmentsImmutable == []StoredAsSent /\ [][RetainedUnchanged]_vars

\* A has been evicted and B has moved to r2 under the name n1; the queue of r1
\* still holds messages of both, B's under the name n2, among them two with
\* the same sequence number and two with sequence numbers out of order
FragmentsImmutableWitness ==
    /\ "A" \notin DOMAIN active_players
    /\ "B" \in DOMAIN active_players
    /\ active_players["B"].name = "n1"
    /\ active_players["B"].room_id = "r2"
    /\ "r1" \in DOMAIN voice_message_queue
    /\ LET q == voice_message_queue["r1"]
       IN  /\ \E i \in DOMAIN q : q[i].sender_id = "A"
           /\ \E i \in DOMAIN q : q[i].sender_id = "B" /\ q[i].sender_name = "n2"
           /\ \E i, j \in DOMAIN q : i < j /\ q[i].sequence = q[j].sequence
           /\ \E i, j \in DOMAIN q : i < j /\ q[i].sequence > q[j].sequence

\* the room of every registered player has a queue
RegisteredRoomHasQueue ==
    \A p \in DOMAIN active_players :
        active_players[p].room_id \in DOMAIN voice_message_queue

\* the queues of the rooms other than r are after the step what they were before
OtherQueuesKept(r) ==
    /\ DOMAIN voice_message_queue' \ {r} = DOMAIN voice_message_queue \ {r}
    /\ \A x \in DOMAIN voice_message_queue \ {r} :
          voice_message_queue'[x] = voice_message_queue[x]

\* no step removes a queue; a publish step changes at most the queue of its
\* room, which exists once the message is appended; a register creates the
\* empty queue of its room when absent and changes no queue that exists; a
\* sweep step changes no queue
QueueFrame ==
    /\ DOMAIN voice_message_queue \subseteq DOMAIN voice_message_queue'
    /\ PublishStep =>
          /\ OtherQueuesKept(IF handler.op = "send_audio" THEN handler.room_id
                                                           ELSE handler'.room_id)
          /\ handler'.pc = "truncate" => handler.room_id \in DOMAIN voice_message_queue'
    /\ RegisterStep =>
          /\ DOMAIN voice_message_queue' = DOMAIN voice_message_queue \cup {handler'.room_id}
          /\ \A r \in DOMAIN voice_message_queue :
                voice_message_queue'[r] = voice_message_queue[r]
          /\ handler'.room_id \notin DOMAIN voice_message_queue
                => voice_message_queue'[handler'.room_id] = <<>>
    /\ (\E t \in SweepIds : SweepStep(t)) => voice_message_queue' = voice_message_queue

\* C20: a publish changes only the queue of its room, creating it when
\* absent; register and sweep change no queue that exists; no queue is ever
\* removed, and the room of every registered player has a queue.
RoomQueueFrame == []RegisteredRoomHasQueue /\ [][QueueFrame]_vars

\* the first publish to r2, where nobody ever registered, has created its
\* queue, while the queue of r1 holds its messages and players are
\* registered in r1
RoomQueueFrameWitness ==
    /\ RequestEnded("send_audio")
    /\ response.status = "success"
    /\ handler.room_id = "r2"
    /\ Len(published["r2"]) = 1
    /\ voice_message_queue["r2"] = published["r2"]
    /\ voice_message_queue["r1"] = published["r1"]
    /\ Len(voice_message_queue["r1"]) = 6
    /\ PlayerCount(active_players, "r1") = 2

\* C19: no queue ever holds two messages with the same id.
UniqueMessageIds ==
    \A r \in DOMAIN voice_message_queue :
        \A i, j \in DOMAIN voice_message_queue[r] :
            voice_message_queue[r][i].id = voice_message_queue[r][j].id => i = j

====
